---------------------------- MODULE Spec2Model ----------------------------
(***************************************************************************)
(* The three mojibake repair scripts of ft-oda-documentation:              *)
(*   fix_all_encoding.py         fix_file and the batch loop over the glob *)
(*   fix_compliance_encoding.py  the same pass on docs/compliance/index.md *)
(*   fix_production_index.py     two literal fixes on production/index.md  *)
(* A file is a sequence of bytes (0..255), a text a sequence of Unicode    *)
(* code points.  The string literals of the scripts are written out as the *)
(* code points the source files hold.                                      *)
(***************************************************************************)
EXTENDS Integers, Sequences, FiniteSets, TLC

\* ------------------------------------------------------------ bounds
\* number of markdown files under docs/
NumPaths == 3
\* a file's contents are built from at most this many chunks
MaxChunks == 2

\* ------------------------------------------------------------ text
\* U+FFFD, what decode(errors='replace') puts for an undecodable sequence
Marker == 65533
\* U+1F512, the lock glyph
LockEmoji == 128274

\* value of an undecodable subpart in the scan of a byte sequence
Invalid == -1

IsCont(b) == b >= 128 /\ b <= 191

\* number of continuation bytes a lead byte asks for (0: not a lead byte)
Need(b0) ==
    IF b0 >= 194 /\ b0 <= 223 THEN 1
    ELSE IF b0 >= 224 /\ b0 <= 239 THEN 2
    ELSE IF b0 >= 240 /\ b0 <= 244 THEN 3
    ELSE 0

\* the second byte of a sequence is restricted by the lead byte
SecondOk(b0, b1) ==
    IF b0 = 224 THEN b1 >= 160 /\ b1 <= 191
    ELSE IF b0 = 237 THEN b1 >= 128 /\ b1 <= 159
    ELSE IF b0 = 240 THEN b1 >= 144 /\ b1 <= 191
    ELSE IF b0 = 244 THEN b1 >= 128 /\ b1 <= 143
    ELSE IsCont(b1)

\* how many of the continuation bytes wanted at position i are there
Avail(b, i) ==
    LET n == Need(b[i])
        ok(j) == i + j <= Len(b) /\ (IF j = 1 THEN SecondOk(b[i], b[i + 1]) ELSE IsCont(b[i + j]))
    IN  IF n >= 1 /\ ok(1)
        THEN IF n >= 2 /\ ok(2)
             THEN IF n >= 3 /\ ok(3) THEN 3 ELSE 2
             ELSE 1
        ELSE 0

CodePoint(b, i, n) ==
    IF n = 1 THEN (b[i] - 192) * 64 + (b[i + 1] - 128)
    ELSE IF n = 2 THEN (b[i] - 224) * 4096 + (b[i + 1] - 128) * 64 + (b[i + 2] - 128)
    ELSE (b[i] - 240) * 262144 + (b[i + 1] - 128) * 4096 + (b[i + 2] - 128) * 64 + (b[i + 3] - 128)

\* the UTF-8 scan: code points, with Invalid for each maximal undecodable subpart
RECURSIVE ScanFrom(_, _)
ScanFrom(b, i) ==
    IF i > Len(b) THEN << >>
    ELSE IF b[i] < 128 THEN <<b[i]>> \o ScanFrom(b, i + 1)
    ELSE LET n == Need(b[i])
             k == Avail(b, i)
         IN  IF n >= 1 /\ k = n
             THEN <<CodePoint(b, i, n)>> \o ScanFrom(b, i + n + 1)
             ELSE <<Invalid>> \o ScanFrom(b, i + k + 1)

Scan(b) == ScanFrom(b, 1)

\* bytes.decode('utf-8', errors='replace')
DecodeReplace(b) ==
    LET s == Scan(b) IN [i \in 1..Len(s) |-> IF s[i] = Invalid THEN Marker ELSE s[i]]

\* strict decoding raises UnicodeDecodeError on the first undecodable byte
DecodeRaises(b) ==
    LET s == Scan(b) IN \E i \in 1..Len(s) : s[i] = Invalid

EncodeChar(c) ==
    IF c < 128 THEN <<c>>
    ELSE IF c < 2048 THEN <<192 + (c \div 64), 128 + (c % 64)>>
    ELSE IF c < 65536 THEN <<224 + (c \div 4096), 128 + ((c \div 64) % 64), 128 + (c % 64)>>
    ELSE <<240 + (c \div 262144), 128 + ((c \div 4096) % 64), 128 + ((c \div 64) % 64), 128 + (c % 64)>>

\* f.write(text) on a file opened with encoding='utf-8'
RECURSIVE EncodeFrom(_, _)
EncodeFrom(t, i) ==
    IF i > Len(t) THEN << >> ELSE EncodeChar(t[i]) \o EncodeFrom(t, i + 1)

EncodeUtf8(t) == EncodeFrom(t, 1)

\* old occurs in s at position i
MatchAt(s, i, old) ==
    /\ i + Len(old) - 1 <= Len(s)
    /\ \A j \in 1..Len(old) : s[i + j - 1] = old[j]

Contains(s, old) == \E i \in 1..Len(s) : MatchAt(s, i, old)

RECURSIVE ReplaceFrom(_, _, _, _)
ReplaceFrom(s, i, old, new) ==
    IF i > Len(s) THEN << >>
    ELSE IF MatchAt(s, i, old) THEN new \o ReplaceFrom(s, i + Len(old), old, new)
    ELSE <<s[i]>> \o ReplaceFrom(s, i + 1, old, new)

\* str.replace(old, new, 1): only the first occurrence
RECURSIVE ReplaceFirstFrom(_, _, _, _)
ReplaceFirstFrom(s, i, old, new) ==
    IF i > Len(s) THEN << >>
    ELSE IF MatchAt(s, i, old) THEN new \o SubSeq(s, i + Len(old), Len(s))
    ELSE <<s[i]>> \o ReplaceFirstFrom(s, i + 1, old, new)

ReplaceFirst(s, old, new) == ReplaceFirstFrom(s, 1, old, new)

\* str.replace(old, new): every non-overlapping occurrence, left to right
Replace(s, old, new) == ReplaceFrom(s, 1, old, new)

\* for old, new in replacements.items(): text = text.replace(old, new)
RECURSIVE ApplyRulesFrom(_, _, _)
ApplyRulesFrom(text, rules, k) ==
    IF k > Len(rules) THEN text
    ELSE ApplyRulesFrom(Replace(text, rules[k].old, rules[k].new), rules, k + 1)

ApplyRules(text, rules) == ApplyRulesFrom(text, rules, 1)

Rule(old, new) == [old |-> old, new |-> new]

\* the three characters the scripts spell the marker with: U+00EF U+00BF U+00BD
Moji == <<239, 191, 189>>

\* the table with U+FFFD itself where the source spells the marker in three characters
replacements_marker ==
    << Rule(<<61, 16>>, <<240, 376, 8221, 8217>>),
       Rule(<<61, Marker>>, <<240, 376, 8220, 339>>),
       Rule(<<5>>, <<226, 339, 8230>>),
       Rule(<<61, 23>>, <<240, 376, 8221, 8212>>),
       Rule(<<60, Marker, 15>>, <<240, 376, 8220, 8249>>),
       Rule(<<61, 101>>, <<240, 376, 8220>>),
       Rule(<<61, 39>>, <<240, 376, 8221, 167>>),
       Rule(<<Marker>>, <<195, 184>>),
       Rule(<<70, Marker, 100, 116>>, <<70, 195, 184, 100, 116>>),
       Rule(<<65, 107, 116, Marker, 114>>, <<65, 107, 116, 195, 184, 114>>),
       Rule(<<77, Marker, 100, 101>>, <<77, 195, 184, 100, 101>>) >>

\* the table with the generic marker rule inserted first
replacements_generic_first ==
    << Rule(Moji, <<195, 184>>),
       Rule(<<61, 16>>, <<240, 376, 8221, 8217>>),
       Rule(<<61>> \o Moji, <<240, 376, 8220, 339>>),
       Rule(<<5>>, <<226, 339, 8230>>),
       Rule(<<61, 23>>, <<240, 376, 8221, 8212>>),
       Rule(<<60>> \o Moji \o <<15>>, <<240, 376, 8220, 8249>>),
       Rule(<<61, 101>>, <<240, 376, 8220>>),
       Rule(<<61, 39>>, <<240, 376, 8221, 167>>),
       Rule(<<70>> \o Moji \o <<100, 116>>, <<70, 195, 184, 100, 116>>),
       Rule(<<65, 107, 116>> \o Moji \o <<114>>, <<65, 107, 116, 195, 184, 114>>),
       Rule(<<77>> \o Moji \o <<100, 101>>, <<77, 195, 184, 100, 101>>) >>

\* the table of fix_all_encoding.fix_file, in insertion order
replacements ==
    << Rule(<<61, 16>>, <<240, 376, 8221, 8217>>),
       Rule(<<61>> \o Moji, <<240, 376, 8220, 339>>),
       Rule(<<5>>, <<226, 339, 8230>>),
       Rule(<<61, 23>>, <<240, 376, 8221, 8212>>),
       Rule(<<60>> \o Moji \o <<15>>, <<240, 376, 8220, 8249>>),
       Rule(<<61, 101>>, <<240, 376, 8220>>),
       Rule(<<61, 39>>, <<240, 376, 8221, 167>>),
       Rule(Moji, <<195, 184>>),
       Rule(<<70>> \o Moji \o <<100, 116>>, <<70, 195, 184, 100, 116>>),
       Rule(<<65, 107, 116>> \o Moji \o <<114>>, <<65, 107, 116, 195, 184, 114>>),
       Rule(<<77>> \o Moji \o <<100, 101>>, <<77, 195, 184, 100, 101>>) >>

\* the table of fix_compliance_encoding.py followed by its closing replace
compliance_replacements ==
    << Rule(<<61, 16>>, <<240, 376, 8221, 8217>>),
       Rule(<<61>> \o Moji, <<240, 376, 8220, 339>>),
       Rule(<<5>>, <<226, 339, 8230>>),
       Rule(<<70>> \o Moji \o <<100, 116>>, <<70, 195, 184, 100, 116>>),
       Rule(Moji, <<195, 184>>) >>

\* '### = [Security]' and '### <o-slash> [Performance]' with their glyphs
production_replacements ==
    << Rule(<<35, 35, 35, 32, 61, 32, 91, 83, 101, 99, 117, 114, 105, 116, 121, 93>>,
            <<35, 35, 35, 32, LockEmoji, 32, 91, 83, 101, 99, 117, 114, 105, 116, 121, 93>>),
       Rule(<<35, 35, 35, 32, 248, 32, 91, 80, 101, 114, 102, 111, 114, 109, 97, 110, 99, 101, 93>>,
            <<35, 35, 35, 32, 9889, 32, 91, 80, 101, 114, 102, 111, 114, 109, 97, 110, 99, 101, 93>>) >>

\* ------------------------------------------------------------ files
Paths == 1..NumPaths
\* docs/compliance/index.md and docs/production/index.md among the files of docs/
CompliancePath == 1
ProductionPath == 2

Scripts == {"all", "compliance", "production"}

Target(s) == IF s = "production" THEN ProductionPath ELSE CompliancePath

\* the file that holds the built contents: the one file of a single-file
\* script, the last file of the list for the batch
RichPath(s) == IF s = "all" THEN NumPaths ELSE Target(s)

\* where the filesystem refuses: opening for reading (missing path, permission),
\* reading, opening for writing (read-only file), writing (disk full)
Faults == {"none", "open_read", "read", "open_write", "write"}

\* glob.glob('docs/**/*.md', recursive=True)
md_files == [i \in 1..NumPaths |-> i]

\* the byte chunks file contents are built from: the patterns of the tables
\* (UTF-8 encoded), undecodable bytes, correct text and already repaired text
Chunks ==
    {EncodeUtf8(replacements[k].old) : k \in 1..Len(replacements)}
    \cup {EncodeUtf8(production_replacements[k].old) : k \in 1..Len(production_replacements)}
    \cup { <<255>>, <<195>>, <<61>>,
           <<70, 195, 184, 100, 116>>,
           EncodeUtf8(<<Marker>>),
           EncodeUtf8(replacements[1].new) }

RECURSIVE Build(_)
Build(k) ==
    IF k = 0 THEN {<< >>}
    ELSE LET prev == Build(k - 1) IN prev \cup {a \o c : a \in prev, c \in Chunks}

RichContents == Build(MaxChunks)

\* contents of the files of a batch: an undecodable byte, a plain letter
BatchContents == { <<255>>, <<120>> }

VARIABLES
    script,       \* the script that is run
    fs,           \* path -> bytes stored at the path
    fs0,          \* path -> bytes stored when the script started
    fault,        \* path -> where the filesystem fails for that path
    idx,          \* position of the for loop in md_files
    fixed_count,
    result,       \* path -> what fix_file returned
    calls,        \* path -> number of fix_file calls
    out,          \* lines printed
    pc,           \* "run", "done", or "crashed" on an unhandled exception
    exc           \* the unhandled exception

vars == <<script, fs, fs0, fault, idx, fixed_count, result, calls, out, pc, exc>>

Line(kind, path, info) == [kind |-> kind, path |-> path, info |-> info]

Start ==
    /\ fs0 = fs
    /\ idx = 1
    /\ fixed_count = 0
    /\ result = [p \in Paths |-> "pending"]
    /\ calls = [p \in Paths |-> 0]
    /\ out = << >>
    /\ pc = "run"
    /\ exc = "none"

InitBatch ==
    /\ script \in Scripts
    /\ fs \in [Paths -> BatchContents]
    /\ fault \in [Paths -> Faults]
    /\ Start

InitRich ==
    /\ script \in Scripts
    /\ \E c \in RichContents : fs = [p \in Paths |-> IF p = RichPath(script) THEN c ELSE << >>]
    /\ fault = [p \in Paths |-> "none"]
    /\ Start

Init == InitBatch \/ InitRich

\* what a write that fails part-way leaves in the truncated file
PartialWrites(new) == {SubSeq(new, 1, k) : k \in 0..Len(new)}

\* fix_file with open(filepath, 'w') truncating the file before the failure shows
fix_file_truncating(old, flt) ==
    LET new == EncodeUtf8(ApplyRules(DecodeReplace(old), replacements))
    IN  IF flt \in {"open_read", "read"} THEN {[ret |-> FALSE, data |-> old, why |-> flt]}
        ELSE IF flt = "open_write" THEN {[ret |-> FALSE, data |-> << >>, why |-> flt]}
        ELSE IF flt = "write" THEN {[ret |-> FALSE, data |-> d, why |-> flt] : d \in PartialWrites(new)}
        ELSE {[ret |-> TRUE, data |-> new, why |-> flt]}

\* fix_file(filepath): the possible (return value, bytes left at the path)
fix_file(old, flt) ==
    LET new == EncodeUtf8(ApplyRules(DecodeReplace(old), replacements))
    IN  IF flt \in {"open_read", "read", "open_write"} THEN {[ret |-> FALSE, data |-> old, why |-> flt]}
        ELSE IF flt = "write" THEN {[ret |-> FALSE, data |-> d, why |-> flt] : d \in PartialWrites(new)}
        ELSE {[ret |-> TRUE, data |-> new, why |-> flt]}

\* the loop body without the try/except of fix_file: a failure ends the script
BatchStepNoCatch ==
    /\ script = "all" /\ pc = "run" /\ idx <= Len(md_files)
    /\ LET p == md_files[idx] IN
       \E o \in fix_file(fs[p], fault[p]) :
          /\ fs' = [fs EXCEPT ![p] = o.data]
          /\ calls' = [calls EXCEPT ![p] = @ + 1]
          /\ IF o.ret
             THEN /\ result' = [result EXCEPT ![p] = "True"]
                  /\ out' = Append(out, Line("Fixed", p, "none"))
                  /\ fixed_count' = fixed_count + 1
                  /\ idx' = idx + 1
                  /\ UNCHANGED <<pc, exc>>
             ELSE /\ pc' = "crashed"
                  /\ exc' = "OSError"
                  /\ UNCHANGED <<result, out, fixed_count, idx>>
    /\ UNCHANGED <<script, fs0, fault>>

\* the loop body counting every file, whatever fix_file returned
BatchStepCountAll ==
    /\ script = "all" /\ pc = "run" /\ idx <= Len(md_files)
    /\ LET p == md_files[idx] IN
       \E o \in fix_file(fs[p], fault[p]) :
          /\ fs' = [fs EXCEPT ![p] = o.data]
          /\ result' = [result EXCEPT ![p] = IF o.ret THEN "True" ELSE "False"]
          /\ calls' = [calls EXCEPT ![p] = @ + 1]
          /\ out' = Append(out, IF o.ret THEN Line("Fixed", p, "none") ELSE Line("Error", p, o.why))
          /\ fixed_count' = fixed_count + 1
    /\ idx' = idx + 1
    /\ UNCHANGED <<script, fs0, fault, pc, exc>>

\* for filepath in md_files: if fix_file(filepath): fixed_count += 1
BatchStep ==
    /\ script = "all" /\ pc = "run" /\ idx <= Len(md_files)
    /\ LET p == md_files[idx] IN
       \E o \in fix_file(fs[p], fault[p]) :
          /\ fs' = [fs EXCEPT ![p] = o.data]
          /\ result' = [result EXCEPT ![p] = IF o.ret THEN "True" ELSE "False"]
          /\ calls' = [calls EXCEPT ![p] = @ + 1]
          /\ out' = Append(out, IF o.ret THEN Line("Fixed", p, "none") ELSE Line("Error", p, o.why))
          /\ fixed_count' = IF o.ret THEN fixed_count + 1 ELSE fixed_count
    /\ idx' = idx + 1
    /\ UNCHANGED <<script, fs0, fault, pc, exc>>

\* print(f"\nFixed {fixed_count} files total")
Summary ==
    /\ script = "all" /\ pc = "run" /\ idx > Len(md_files)
    /\ out' = Append(out, Line("Summary", 0, fixed_count))
    /\ pc' = "done"
    /\ UNCHANGED <<script, fs, fs0, fault, idx, fixed_count, result, calls, exc>>

\* a script without fix_file: read, decode, replace, write; nothing is caught
RunScript(s, p, raises, new) ==
    /\ script = s /\ pc = "run"
    /\ IF fault[p] \in {"open_read", "read"}
       THEN /\ pc' = "crashed" /\ exc' = "OSError"
            /\ UNCHANGED <<fs, out>>
       ELSE IF raises
       THEN /\ pc' = "crashed" /\ exc' = "UnicodeDecodeError"
            /\ UNCHANGED <<fs, out>>
       ELSE IF fault[p] = "open_write"
       THEN /\ pc' = "crashed" /\ exc' = "OSError"
            /\ UNCHANGED <<fs, out>>
       ELSE IF fault[p] = "write"
       THEN /\ pc' = "crashed" /\ exc' = "OSError"
            /\ \E d \in PartialWrites(new) : fs' = [fs EXCEPT ![p] = d]
            /\ UNCHANGED out
       ELSE /\ pc' = "done" /\ exc' = "none"
            /\ fs' = [fs EXCEPT ![p] = new]
            /\ out' = Append(out, Line("Fixed", p, "none"))
    /\ UNCHANGED <<script, fs0, fault, idx, fixed_count, result, calls>>

\* fix_compliance_encoding.py
ComplianceRun ==
    RunScript("compliance", CompliancePath, FALSE,
              EncodeUtf8(ApplyRules(DecodeReplace(fs[CompliancePath]), compliance_replacements)))

\* fix_production_index.py: the file is read as text, decoded strictly
ProductionRun ==
    RunScript("production", ProductionPath, DecodeRaises(fs[ProductionPath]),
              EncodeUtf8(ApplyRules(DecodeReplace(fs[ProductionPath]), production_replacements)))

Next == BatchStep \/ Summary \/ ComplianceRun \/ ProductionRun

Spec == Init /\ [][Next]_vars

TypeOK ==
    /\ script \in Scripts
    /\ pc \in {"run", "done", "crashed"}
    /\ idx \in 1..(NumPaths + 1)
    /\ fixed_count \in 0..NumPaths

\* ------------------------------------------------------------ properties
\* the text a script reads from the bytes b, and the text of a rewritten file
TextOf(b) == DecodeReplace(b)

\* the rules a script applies
RulesOf(s) ==
    IF s = "all" THEN replacements
    ELSE IF s = "compliance" THEN compliance_replacements
    ELSE production_replacements

\* the script has rewritten the file at p and reported it fixed
Rewritten(p) ==
    \/ script = "all" /\ result[p] = "True"
    \/ script # "all" /\ pc = "done" /\ p = Target(script)

\* the bytes a full repair of b by fix_file leaves
RepairedBytes(b) == EncodeUtf8(ApplyRules(TextOf(b), replacements))

IsPrefix(a, b) == Len(a) <= Len(b) /\ a = SubSeq(b, 1, Len(a))

\* the rules of a table whose pattern is not in pats
Without(rules, pats) == SelectSeq(rules, LAMBDA r : r.old \notin pats)

\* C1: in the batch of fix_all_encoding.py fix_file is called exactly once per
\* path, in list order, the loop reaches the end of the list whatever fails,
\* and what a path ends with (return value and bytes) is decided by its own
\* bytes and its own fault alone, not by the failures of the other paths.
C1_BatchFailIndependent ==
    script = "all" =>
        /\ pc # "crashed"
        /\ \A i \in 1..Len(md_files) : calls[md_files[i]] = IF i < idx THEN 1 ELSE 0
        /\ pc = "done" => idx = Len(md_files) + 1
        /\ \A p \in Paths :
              IF calls[p] = 0
              THEN result[p] = "pending" /\ fs[p] = fs0[p]
              ELSE /\ result[p] = IF fault[p] = "none" THEN "True" ELSE "False"
                   /\ fault[p] = "none" => fs[p] = RepairedBytes(fs0[p])
                   /\ fault[p] \in {"open_read", "read", "open_write"} => fs[p] = fs0[p]

\* a finished batch where an earlier path failed and a later one was repaired
C1_Witness ==
    /\ script = "all" /\ pc = "done"
    /\ \E a, b \in Paths :
          a < b /\ result[a] = "False" /\ result[b] = "True" /\ fs[b] # fs0[b]

\* C2: fixed_count is the number of paths fix_file rewrote and returned True
\* for, each processed path has exactly one outcome line ("Fixed" or "Error")
\* in list order, and the summary line is printed once, last, with that count.
C2_SummaryCount ==
    script = "all" =>
        /\ fixed_count = Cardinality({p \in Paths : result[p] = "True"})
        /\ \A p \in Paths : result[p] = "True" => fs[p] = RepairedBytes(fs0[p])
        /\ Len(out) = (idx - 1) + (IF pc = "done" THEN 1 ELSE 0)
        /\ \A i \in 1..(idx - 1) :
              /\ out[i].path = md_files[i]
              /\ out[i].kind = IF result[md_files[i]] = "True" THEN "Fixed" ELSE "Error"
        /\ pc = "done" =>
              /\ idx = Len(md_files) + 1
              /\ out[Len(out)] = Line("Summary", 0, fixed_count)

\* a finished batch with one unreadable path and every other path fixed
C2_Witness ==
    /\ script = "all" /\ pc = "done"
    /\ Cardinality({p \in Paths : fault[p] = "open_read"}) = 1
    /\ fixed_count = NumPaths - 1
    /\ Len(out) = NumPaths + 1

\* C3: in every script the step from the file's bytes to text never raises.
C3_DecodeNeverRaises == exc # "UnicodeDecodeError"

\* C4: in every script a failing open, read or write is caught and the script
\* completes normally: no filesystem error ends a script as an unhandled exception.
C4_NoErrorEscapes == ~(pc = "crashed" /\ exc = "OSError")

\* C5: the repair pass of fix_all_encoding.py, and the rule sequence of
\* fix_compliance_encoding.py, applied to the text of a file the script has
\* just rewritten, changes nothing.
C5_PassIdempotent ==
    \A p \in Paths :
        (script \in {"all", "compliance"} /\ Rewritten(p)) =>
            LET w == TextOf(fs[p]) IN ApplyRules(w, RulesOf(script)) = w

\* a file the batch has rewritten to something else than it held
C5_Witness ==
    \E p \in Paths :
        /\ script = "all" /\ Rewritten(p)
        /\ Contains(TextOf(fs0[p]), Moji)
        /\ fs[p] # fs0[p]

\* valid UTF-8 holding only printable ASCII and the Danish letters
CleanChars == (32..126) \cup {230, 248, 229, 198, 216, 197}

Clean(b) ==
    /\ ~DecodeRaises(b)
    /\ \A i \in 1..Len(TextOf(b)) : TextOf(b)[i] \in CleanChars

\* C6: a file holding correctly encoded text without corruption is written
\* back as it was read by fix_all_encoding.py and fix_compliance_encoding.py.
C6_CleanTextUnchanged ==
    \A p \in Paths :
        (script \in {"all", "compliance"} /\ Rewritten(p) /\ Clean(fs0[p])) => fs[p] = fs0[p]

\* C7: a file whose text holds '=' followed by U+0010 holds the lock glyph
\* after the repair.
C7_LockGlyph ==
    \A p \in Paths :
        (Rewritten(p) /\ Contains(TextOf(fs0[p]), <<61, 16>>)) =>
            Contains(TextOf(fs[p]), <<LockEmoji>>)

WordPatterns ==
    { <<70>> \o Moji \o <<100, 116>>,
      <<65, 107, 116>> \o Moji \o <<114>>,
      <<77>> \o Moji \o <<100, 101>> }

EarlyMarkerPatterns == { <<61>> \o Moji, <<60>> \o Moji \o <<15>> }

\* C9: the pass of fix_file gives what the pass without the three word rules
\* gives, for every file; and for a file holding '=' + marker spelling or
\* '<' + marker spelling + U+000F it gives something else than the pass
\* without that rule.
C9_RuleOrder ==
    \A p \in Paths :
        (script = "all" /\ Rewritten(p)) =>
            LET t == TextOf(fs0[p])
                w == TextOf(fs[p])
            IN  /\ w = ApplyRules(t, Without(replacements, WordPatterns))
                /\ \A pat \in EarlyMarkerPatterns :
                      Contains(t, pat) => w # ApplyRules(t, Without(replacements, {pat}))

\* a rewritten file that held a word pattern and an early marker pattern
C9_Witness ==
    \E p \in Paths :
        /\ script = "all" /\ Rewritten(p)
        /\ \E pat \in WordPatterns : Contains(TextOf(fs0[p]), pat)
        /\ \E pat \in EarlyMarkerPatterns : Contains(TextOf(fs0[p]), pat)

\* C10 as stated: whenever fix_file returned False the path holds what it held.
C10_FailedRepairUntouched ==
    \A p \in Paths :
        (script = "all" /\ result[p] = "False") => fs[p] = fs0[p]

\* C10 amended: when fix_file returned False after a failure to open or read
\* the file, or to open it for writing, the path holds what it held; after a
\* failure while writing it holds a prefix of the repaired bytes.
C10_FailedRepair ==
    \A p \in Paths :
        (script = "all" /\ result[p] = "False") =>
            IF fault[p] = "write"
            THEN IsPrefix(fs[p], RepairedBytes(fs0[p]))
            ELSE fs[p] = fs0[p]

\* one path failed at open for writing, another part-way through the write
C10_Witness ==
    \E p, q \in Paths :
        /\ script = "all"
        /\ result[p] = "False" /\ fault[p] = "open_write"
        /\ result[q] = "False" /\ fault[q] = "write"
        /\ fs[q] # fs0[q] /\ fs[q] # << >>
=============================================================================
